---- MODULE Spec2Model ----
(***************************************************************************)
(* A model of the IndexedFile crate: the line index and its binary codec   *)
(* (src/src/index.rs), the seek-optimised line reader                      *)
(* (src/src/bufreader.rs), the provided read_line / binary-search methods  *)
(* (src/src/lib.rs) and the in-memory store (src/src/mem_file.rs).         *)
(*                                                                         *)
(* Bytes are integers 0..255.  A byte source is a sequence of bytes; the   *)
(* byte at stream offset p (0-based, as in the code) is src[p + 1].        *)
(* An Option is a sequence of length 0 (None) or 1 (Some).  A Result is a  *)
(* record [kind, val] with kind "Ok" or the name of the Error variant.     *)
(* Offsets are u32 in the code; every offset of the model is far below     *)
(* 2^32, so the casts `as u32` are the identity here.  The indexes the     *)
(* model builds are non-decreasing, so next_line - curr_line never wraps.  *)
(***************************************************************************)
EXTENDS Integers, Sequences, FiniteSets, TLC

VARIABLES content, reader, res, sink, mem, shadow, mres, bs, codec, reader2, res2

vars == <<content, reader, res, sink, mem, shadow, mres, bs, codec, reader2, res2>>

-----------------------------------------------------------------------------
(* Bounds of the model *)

\* longest raw content enumerated (over the three-byte alphabet)
MaxLen == 3
\* longest raw content of the full reader session (over '\n' and 'a')
MaxRaw == 2
\* longest prior content of a caller's buffer handed to read_line_raw
MaxBuf == 1
\* most entries a MemFile receives
MaxEntries == 3
\* longest needle handed to the binary search
MaxNeedle == 2

(* Program constants *)

\* const HEADER_SIZE: usize = 8
HEADER_SIZE == 8
\* b'\n'
NL == 10
\* number of values of a byte (to_le_bytes / from_le_bytes)
B256 == 256

-----------------------------------------------------------------------------
(* Byte strings *)

\* '\n', 'a', and 0xFF (a byte no UTF-8 text contains)
Bytes == {NL, 97, 255}

RECURSIVE SeqsUpTo(_, _)
SeqsUpTo(S, n) ==
    IF n = 0 THEN {<<>>}
    ELSE LET shorter == SeqsUpTo(S, n - 1)
         IN  shorter \cup {Append(s, b) : s \in {t \in shorter : Len(t) = n - 1}, b \in S}

\* the scenario of the documentation: "a\nbb\nccc"
Example == <<97, NL, 98, 98, NL, 99, 99, 99>>

Contents == SeqsUpTo(Bytes, MaxLen) \cup {Example}

\* bytes of s from stream offset p to the end (empty at or past the end)
From(s, p) == IF p >= Len(s) THEN <<>> ELSE SubSeq(s, p + 1, Len(s))

\* the n bytes of s starting at stream offset p
Slice(s, p, n) == SubSeq(s, p + 1, p + n)

Ok(v) == [kind |-> "Ok", val |-> v]
Err(k) == [kind |-> k, val |-> <<>>]

\* uN::to_le_bytes, w bytes wide
RECURSIVE to_le_bytes(_, _)
to_le_bytes(v, w) ==
    IF w = 0 THEN <<>> ELSE <<v % B256>> \o to_le_bytes(v \div B256, w - 1)

\* uN::from_le_bytes
RECURSIVE from_le_bytes(_)
from_le_bytes(b) ==
    IF b = <<>> THEN 0 ELSE b[1] + B256 * from_le_bytes(Tail(b))

\* String::from_utf8 on the model's alphabet: 0xFF never occurs in UTF-8,
\* every other byte used here is ASCII
from_utf8(b) ==
    IF \E i \in 1..Len(b) : b[i] >= 128 THEN Err("UTF8Error") ELSE Ok(b)

-----------------------------------------------------------------------------
(* index.rs: Header *)

Header_new(items) == [items |-> items]

Header_encode(h) == to_le_bytes(h.items, HEADER_SIZE)

\* seek(0); read_exact of 8 bytes (an io error at a short source); the
\* result carries the stream position the reader is left at
Header_decode(src) ==
    IF Len(src) < HEADER_SIZE
    THEN [kind |-> "Io", val |-> <<>>, pos |-> Len(src)]
    ELSE [kind |-> "Ok",
          val  |-> Header_new(from_le_bytes(Slice(src, 0, HEADER_SIZE))),
          pos  |-> HEADER_SIZE]

(* index.rs: Index *)

\* Index_new without the byte of the '\n' that closes the encoded index
Index_new_no_terminator(line) ==
    [inner |-> line, len_bytes |-> HEADER_SIZE + Len(line) * 4]

Index_new(line) ==
    LET inner_byte_size == Len(line) * 4 + 1
    IN  [inner |-> line, len_bytes |-> HEADER_SIZE + inner_byte_size]

\* BufRead::read_until(b'\n'): the number of bytes from offset pos up to
\* and including the next '\n', or up to the end of the source
RECURSIVE read_until(_, _)
read_until(src, pos) ==
    IF pos >= Len(src) THEN 0
    ELSE IF src[pos + 1] = NL THEN 1
    ELSE 1 + read_until(src, pos + 1)

\* build_loop pushing the offset at the top of the loop, before the test for
\* the end of the source
RECURSIVE build_loop_push_first(_, _, _)
build_loop_push_first(src, curr_offset, line_index) ==
    LET n == read_until(src, curr_offset)
        pushed == Append(line_index, curr_offset)
    IN  IF n = 0 THEN pushed
        ELSE build_loop_push_first(src, curr_offset + n, pushed)

RECURSIVE build_loop(_, _, _)
build_loop(src, curr_offset, line_index) ==
    LET last_offset == curr_offset
        n == read_until(src, curr_offset)
    IN  IF n = 0 THEN line_index
        ELSE build_loop(src, curr_offset + n, Append(line_index, last_offset))

build(src) == [inner |-> build_loop(src, 0, <<>>), len_bytes |-> 0]

Index_len(index) == Len(index.inner)

calc_length(index) == HEADER_SIZE + Index_len(index) * 4

Index_add(index, pos) ==
    LET pushed == [index EXCEPT !.inner = Append(@, pos)]
    IN  [pushed EXCEPT !.len_bytes = calc_length(pushed)]

\* Extend<u32>: the values are appended, then the length is computed anew
Index_extend(index, iter) ==
    LET extended == [index EXCEPT !.inner = @ \o iter]
    IN  [extended EXCEPT !.len_bytes = calc_length(extended)]

RECURSIVE encode_offsets(_)
encode_offsets(inner) ==
    IF inner = <<>> THEN <<>>
    ELSE to_le_bytes(inner[1], 4) \o encode_offsets(Tail(inner))

\* encode without the byte pushed after the offsets
Index_encode_no_terminator(index) == encode_offsets(index.inner)

Index_encode(index) == Append(encode_offsets(index.inner), NL)

zero_len(index) == [len_bytes |-> 0, inner |-> index.inner]

get_header(index) == Header_new(Len(index.inner))

Index_get(index, pos) ==
    IF pos < Len(index.inner) THEN Ok(index.inner[pos + 1]) ELSE Err("OutOfBounds")

\* the loop of Index::decode: one read_exact of 4 bytes per declared entry
RECURSIVE decode_loop(_, _, _, _)
decode_loop(src, pos, remaining, inner) ==
    IF remaining = 0 THEN [kind |-> "Ok", val |-> Index_new(inner), pos |-> pos]
    ELSE IF pos + 4 > Len(src)
         THEN [kind |-> "Io", val |-> <<>>, pos |-> IF pos > Len(src) THEN pos ELSE Len(src)]
         ELSE decode_loop(src, pos + 4, remaining - 1,
                          Append(inner, from_le_bytes(Slice(src, pos, 4))))

\* Index_decode without the seek past the header
Index_decode_from_start(src, header) == decode_loop(src, 0, header.items, <<>>)

Index_decode(src, header) == decode_loop(src, HEADER_SIZE, header.items, <<>>)

parse_index(src) ==
    LET header == Header_decode(src)
    IN  IF header.kind # "Ok" THEN header ELSE Index_decode(src, header.val)

-----------------------------------------------------------------------------
(* bufreader.rs: IndexedBufReader *)

\* Index::get_buffered is not part of the sources at hand; it is the
\* line -> byte-offset lookup of the index, failing with OutOfBounds
get_buffered(index, pos) ==
    IF pos < Len(index.inner) THEN Ok(index.inner[pos + 1]) ELSE Err("OutOfBounds")

get_index_buffered(r, pos) == get_buffered(r.index, pos)

total_lines(r) == Index_len(r.index)

get_index_byte_len(r) == r.index.len_bytes

\* pos is the stream position the source is left at by whoever built the index
IndexedBufReader_new(src, index, pos) ==
    [src |-> src, index |-> index, last_line |-> <<>>, curr_pos |-> 0, pos |-> pos]

\* File::open_raw / IndexedString::new_raw: Index::build seeks back to 0
new_raw(src) == IndexedBufReader_new(src, build(src), 0)

\* File::open / IndexedString::new: the index is parsed from the source
open(src) ==
    LET index == parse_index(src)
    IN  IF index.kind # "Ok" THEN Err(index.kind)
        ELSE Ok(IndexedBufReader_new(src, index.val, index.pos))

\* the result of an operation: the reader after it, the Result it returns,
\* the caller's buffer after it, and whether it issued a seek on the source
Outcome(r, result, buf, seeked) ==
    [reader |-> r, result |-> result, buf |-> buf, seeked |-> seeked]

\* seek_line eliding the seek on every forward request
seek_line_forward(r, line) ==
    LET last_line == r.last_line
        r1 == [r EXCEPT !.last_line = <<line>>]
    IN  IF last_line # <<>> /\ line > last_line[1]
        THEN Outcome(r1, Ok(<<>>), <<>>, FALSE)
        ELSE LET off == get_buffered(r1.index, line)
             IN  IF off.kind # "Ok"
                 THEN Outcome(r1, off, <<>>, FALSE)
                 ELSE Outcome([r1 EXCEPT !.pos = off.val + r1.index.len_bytes],
                              Ok(<<>>), <<>>, TRUE)

seek_line(r, line) ==
    LET last_line == r.last_line
        r1 == [r EXCEPT !.last_line = <<line>>]
    IN  IF last_line # <<>> /\ line = last_line[1] + 1
        THEN Outcome(r1, Ok(<<>>), <<>>, FALSE)
        ELSE LET off == get_index_buffered(r1, line)
             IN  IF off.kind # "Ok"
                 THEN Outcome(r1, off, <<>>, FALSE)
                 ELSE Outcome([r1 EXCEPT !.pos = off.val + get_index_byte_len(r1)],
                              Ok(<<>>), <<>>, TRUE)

\* Vec::resize(need, 0) when the vector is shorter than need
resized(buf, need) ==
    IF Len(buf) < need THEN buf \o [i \in 1..(need - Len(buf)) |-> 0] ELSE buf

\* read_current_line reading to the end of the source when the index has
\* no entry for the line, instead of failing
read_current_line_unchecked(r, out_buf, line) ==
    LET curr_line == get_buffered(r.index, line)
        next_line == get_buffered(r.index, line + 1)
        rest == From(r.src, r.pos)
    IN  IF curr_line.kind = "Ok" /\ next_line.kind = "Ok"
        THEN LET need_read == next_line.val - curr_line.val
                 buf0 == resized(out_buf, need_read)
             IN  IF Len(rest) >= need_read
                 THEN Outcome([r EXCEPT !.pos = @ + need_read], Ok(need_read),
                              Slice(r.src, r.pos, need_read) \o From(buf0, need_read),
                              FALSE)
                 ELSE Outcome([r EXCEPT !.pos = IF @ > Len(r.src) THEN @ ELSE Len(r.src)],
                              Err("Io"), rest \o From(buf0, Len(rest)), FALSE)
        ELSE Outcome([r EXCEPT !.pos = IF @ > Len(r.src) THEN @ ELSE Len(r.src)],
                     Ok(Len(rest)), rest, FALSE)

read_current_line(r, out_buf, line) ==
    LET curr_line == get_index_buffered(r, line)
        next_line == get_index_buffered(r, line + 1)
    IN  IF curr_line.kind # "Ok" THEN Outcome(r, curr_line, out_buf, FALSE)
        ELSE IF next_line.kind = "Ok"
        THEN LET need_read == next_line.val - curr_line.val
                 buf0 == resized(out_buf, need_read)
                 avail == From(r.src, r.pos)
             IN  IF Len(avail) >= need_read
                 THEN Outcome([r EXCEPT !.pos = @ + need_read], Ok(need_read),
                              Slice(r.src, r.pos, need_read) \o From(buf0, need_read),
                              FALSE)
                 \* read_exact hits the end of the source
                 ELSE Outcome([r EXCEPT !.pos = IF @ > Len(r.src) THEN @ ELSE Len(r.src)],
                              Err("Io"), avail \o From(buf0, Len(avail)), FALSE)
        ELSE \* the last line: clear, then read_to_end
             LET rest == From(r.src, r.pos)
             IN  Outcome([r EXCEPT !.pos = IF @ > Len(r.src) THEN @ ELSE Len(r.src)],
                         Ok(Len(rest)), rest, FALSE)

\* a duplicate made by copying the fields of the reader it comes from; only
\* the stream handed in is new
duplicate_keeps_last_line(r, src) ==
    [IndexedBufReader_new(src, r.index, 0) EXCEPT !.last_line = r.last_line]

\* `src` is the stream handed in: any.rs and string.rs pass a new Cursor,
\* at position 0, over the data the reader shares
duplicate(r, src) == IndexedBufReader_new(src, r.index, 0)

\* any.rs, string.rs: Clone
clone(r) == duplicate(r, r.src)

(* lib.rs: ReadByLine *)

read_line(r, line) ==
    LET s == seek_line(r, line)
    IN  IF s.result.kind # "Ok" THEN s
        ELSE LET c == read_current_line(s.reader, <<>>, line)
             IN  IF c.result.kind # "Ok" THEN Outcome(c.reader, c.result, <<>>, s.seeked)
                 ELSE Outcome(c.reader, from_utf8(c.buf), <<>>, s.seeked)

read_line_raw(r, line, buf) ==
    LET s == seek_line(r, line)
    IN  IF s.result.kind # "Ok" THEN Outcome(s.reader, s.result, buf, s.seeked)
        ELSE LET c == read_current_line(s.reader, buf, line)
             IN  Outcome(c.reader, c.result, c.buf, s.seeked)

(* bufreader.rs: write_to, read_all *)

\* write_to copying the source from its first byte
write_to_from_start(r) ==
    LET header == Header_encode(get_header(r.index))
        encoded_index == Index_encode(r.index)
        copied == r.src
    IN  Outcome([r EXCEPT !.pos = 0, !.curr_pos = 0],
                Ok(Len(encoded_index) + Len(header) + Len(copied)),
                header \o encoded_index \o copied, TRUE)

\* the Outcome's buf is what the writer received
write_to(r) ==
    LET header == Header_encode(get_header(r.index))
        encoded_index == Index_encode(r.index)
        copied == From(r.src, r.index.len_bytes)
        bytes_written == Len(encoded_index) + Len(header) + Len(copied)
    IN  Outcome([r EXCEPT !.pos = 0, !.curr_pos = 0], Ok(bytes_written),
                header \o encoded_index \o copied, TRUE)

read_all(r, buf) ==
    LET start == Index_get(r.index, 0)
    IN  IF start.kind # "Ok" THEN Outcome(r, start, buf, FALSE)
        ELSE LET rest == From(r.src, start.val)
             IN  Outcome([r EXCEPT !.pos = IF start.val > Len(r.src) THEN start.val
                                           ELSE Len(r.src)],
                         Ok(Len(rest)), rest, TRUE)

(* any.rs, string.rs: new_custom; file.rs: TryInto *)

\* the index is taken as handed in; the stream is a new Cursor at position 0
new_custom(src, index) == IndexedBufReader_new(src, index, 0)

\* TryInto<IndexedString> for File: the whole of read_all as a String, under
\* the File's index
try_into_string(r) ==
    LET all == read_all(r, <<>>)
    IN  IF all.result.kind # "Ok" THEN all.result
        ELSE IF from_utf8(all.buf).kind # "Ok" THEN from_utf8(all.buf)
        ELSE Ok(new_custom(all.buf, r.index))

\* the loop of TryInto<IndexedReader<Vec<u8>>>: every line read into the
\* cleared buf, then appended to data with a '\n' pushed behind it
RECURSIVE try_into_loop(_, _, _)
try_into_loop(r, line, data) ==
    IF line >= total_lines(r) THEN Ok(data)
    ELSE LET o == read_line_raw(r, line, <<>>)
         IN  IF o.result.kind # "Ok" THEN o.result
             ELSE try_into_loop(o.reader, line + 1, Append(data \o o.buf, NL))

\* TryInto<IndexedReader<Vec<u8>>> for File
try_into_vec(r) ==
    LET data == try_into_loop(r, 0, <<>>)
    IN  IF data.kind # "Ok" THEN data ELSE Ok(new_custom(data.val, r.index))

-----------------------------------------------------------------------------
(* The reader session: one reader over `content`, the outcome of the last  *)
(* operation on it in `res`, and the bytes of the last write_to in `sink`. *)

\* prior contents of a caller's buffer: 'x' repeated
Bufs == {[i \in 1..n |-> 120] : n \in 0..MaxBuf}

NoRes == [op |-> "new", line |-> 0, arg |-> <<>>, result |-> Ok(<<>>), buf |-> <<>>,
          seeked |-> FALSE, last_line |-> <<>>, pos |-> 0]

\* the record kept of an operation: the line asked for, the buffer handed
\* in, its Outcome, and the reader's last_line and stream position before
\* the call
Record(op, line, arg, o, r) ==
    [op |-> op, line |-> line, arg |-> arg, result |-> o.result, buf |-> o.buf,
     seeked |-> o.seeked, last_line |-> r.last_line, pos |-> r.pos]

NoSink == [pending |-> FALSE, written |-> FALSE, reopened |-> FALSE, bytes |-> <<>>,
           count |-> 0]

IdleMem == [data |-> <<>>, index |-> [inner |-> <<>>, len_bytes |-> 0]]
IdleBs == [pc |-> "idle", raw |-> FALSE, needle |-> <<>>, size |-> 0, left |-> 0, right |-> 0,
           cmp |-> <<>>,
           mid |-> <<>>, result |-> Ok(<<>>), steps |-> 0]
IdleCodec == [built |-> <<>>, encoded |-> <<>>, decoded |-> <<>>, parsed |-> <<>>,
              grown |-> <<>>]

\* line numbers a caller asks for: every line, and two past the end
Lines == 0..(total_lines(reader) + 1)

Rest == <<content, mem, shadow, mres, bs, codec, reader2, res2>>

SeekLine(n) ==
    LET o == seek_line(reader, n)
    IN  /\ ~sink.pending
        /\ reader' = o.reader
        /\ res' = Record("seek_line", n, <<>>, o, reader)
        /\ UNCHANGED <<sink, Rest>>

ReadCurrentLine(n, buf) ==
    LET o == read_current_line(reader, buf, n)
    IN  /\ ~sink.pending
        /\ reader' = o.reader
        /\ res' = Record("read_current_line", n, buf, o, reader)
        /\ UNCHANGED <<sink, Rest>>

ReadLine(n) ==
    LET o == read_line(reader, n)
    IN  /\ ~sink.pending
        /\ reader' = o.reader
        /\ res' = Record("read_line", n, <<>>, o, reader)
        /\ UNCHANGED <<sink, Rest>>

ReadLineRaw(n, buf) ==
    LET o == read_line_raw(reader, n, buf)
    IN  /\ ~sink.pending
        /\ reader' = o.reader
        /\ res' = Record("read_line_raw", n, buf, o, reader)
        /\ UNCHANGED <<sink, Rest>>

ReadAll(buf) ==
    LET o == read_all(reader, buf)
    IN  /\ ~sink.pending
        /\ reader' = o.reader
        /\ res' = Record("read_all", 0, buf, o, reader)
        /\ UNCHANGED <<sink, Rest>>

\* write_to into a fresh Vec; the reader stays in use
WriteTo ==
    LET o == write_to(reader)
    IN  /\ ~sink.pending
        /\ reader' = o.reader
        /\ res' = Record("write_to", 0, <<>>, o, reader)
        /\ sink' = [sink EXCEPT !.written = TRUE, !.bytes = o.buf,
                                 !.count = o.result.val]
        /\ UNCHANGED Rest

\* write_to into a fresh Vec that is then opened as an indexed source
Persist ==
    LET o == write_to(reader)
    IN  /\ ~sink.pending
        /\ reader' = o.reader
        /\ res' = Record("write_to", 0, <<>>, o, reader)
        /\ sink' = [sink EXCEPT !.pending = TRUE, !.written = TRUE, !.bytes = o.buf,
                                 !.count = o.result.val]
        /\ UNCHANGED Rest

\* the indexed-open path over the bytes written: the session goes on with
\* the reader opened over them
Reopen ==
    LET opened == open(sink.bytes)
    IN  /\ sink.pending
        /\ sink' = [sink EXCEPT !.pending = FALSE, !.reopened = (opened.kind = "Ok")]
        /\ reader' = IF opened.kind = "Ok" THEN opened.val ELSE reader
        /\ res' = [NoRes EXCEPT !.op = "open", !.result = [kind |-> opened.kind, val |-> <<>>]]
        /\ UNCHANGED Rest

\* the bytes a reader built over raw content persists
persisted(raw) == write_to(new_raw(raw)).buf

InitIdle ==
    /\ res = NoRes
    /\ sink = NoSink
    /\ mem = IdleMem
    /\ shadow = <<>>
    /\ mres = <<>>
    /\ bs = IdleBs
    /\ codec = IdleCodec
    /\ reader2 = <<>>
    /\ res2 = NoRes

\* a reader built over raw content (open_raw / new_raw), or one opened over
\* a persisted indexed source (open / new)
Init ==
    /\ content \in SeqsUpTo({NL, 97}, MaxRaw)
    /\ reader \in {new_raw(content), open(persisted(content)).val}
    /\ InitIdle

InitReader ==
    /\ content \in Contents
    /\ reader = new_raw(content)
    /\ InitIdle

\* every operation of the reader, in any order
Next ==
    \/ \E n \in Lines : SeekLine(n)
    \/ \E n \in Lines, buf \in Bufs : ReadCurrentLine(n, buf)
    \/ \E n \in Lines : ReadLine(n)
    \/ \E n \in Lines, buf \in Bufs : ReadLineRaw(n, buf)
    \/ \E buf \in Bufs : ReadAll(buf)
    \/ WriteTo

Spec == Init /\ [][Next]_vars

\* line requests only, on a reader built over raw content or opened over
\* the bytes a reader persisted
NextLines ==
    \/ \E n \in Lines : ReadLine(n)
    \/ \E n \in Lines, buf \in Bufs : ReadLineRaw(n, buf)
    \/ Persist
    \/ Reopen

SpecLines == InitReader /\ [][NextLines]_vars

\* line requests with write_to calls in between, on a reader built over raw
\* content
NextWrite ==
    \/ \E n \in Lines : ReadLine(n)
    \/ WriteTo

SpecWrite == InitReader /\ [][NextWrite]_vars

\* prior contents of a caller's buffer, up to one byte longer than Bufs has
LongBufs == {[i \in 1..n |-> 120] : n \in 0..(MaxBuf + 1)}

\* read_line_raw alone, into buffers that are empty, shorter or longer than
\* the line asked for
NextRaw == \E n \in Lines, buf \in LongBufs : ReadLineRaw(n, buf)

SpecRaw == InitReader /\ [][NextRaw]_vars

-----------------------------------------------------------------------------
(* The clone session: the reader is cloned, and line requests on the       *)
(* reader and on its clone interleave in any order. `reader2` holds the    *)
(* clone (none before the first Clone), `res2` the last operation on it.   *)

\* line numbers asked of the second reader, once there is one
Lines2 == IF reader2 = <<>> THEN {} ELSE 0..(total_lines(reader2[1]) + 1)

Clone ==
    /\ ~sink.pending
    /\ reader2' = <<clone(reader)>>
    /\ res2' = [NoRes EXCEPT !.op = "clone"]
    /\ UNCHANGED <<content, reader, res, sink, mem, shadow, mres, bs, codec>>

ReadLine2(n) ==
    LET o == read_line(reader2[1], n)
    IN  /\ reader2 # <<>>
        /\ reader2' = <<o.reader>>
        /\ res2' = Record("read_line", n, <<>>, o, reader2[1])
        /\ UNCHANGED <<content, reader, res, sink, mem, shadow, mres, bs, codec>>

NextClone ==
    \/ \E n \in Lines : ReadLine(n)
    \/ Clone
    \/ \E n \in Lines2 : ReadLine2(n)

SpecClone == Init /\ [][NextClone]_vars

-----------------------------------------------------------------------------
(* The conversion session: lines of a File are read, the File is converted *)
(* into an in-memory reader, and lines of that reader are read. `reader`   *)
(* stays the File as it was when converted, `reader2` is the in-memory     *)
(* reader (none when the conversion failed).                               *)

Converted(op, conv) ==
    /\ reader2 = <<>>
    /\ res2.op = "new"
    /\ reader2' = IF conv.kind = "Ok" THEN <<conv.val>> ELSE <<>>
    /\ res2' = [NoRes EXCEPT !.op = op, !.result = [kind |-> conv.kind, val |-> <<>>]]
    /\ UNCHANGED <<content, reader, res, sink, mem, shadow, mres, bs, codec>>

IntoString == Converted("try_into_string", try_into_string(reader))

IntoVec == Converted("try_into_vec", try_into_vec(reader))

NextConvert ==
    \/ \E n \in Lines : res2.op = "new" /\ ReadLine(n)
    \/ IntoString
    \/ IntoVec
    \/ \E n \in Lines2 : ReadLine2(n)

SpecConvert == Init /\ [][NextConvert]_vars

-----------------------------------------------------------------------------
(* The custom-index session: a reader made by new_custom over content that *)
(* carries no index, with offsets the caller chose, as in the test         *)
(* test_no_new_line.                                                       *)

\* the members of a set of numbers in increasing order
RECURSIVE Increasing(_)
Increasing(S) ==
    IF S = {} THEN <<>>
    ELSE LET least == CHOOSE x \in S : \A y \in S : x <= y
         IN  <<least>> \o Increasing(S \ {least})

\* offsets a caller may choose for a content: 0 and any further positions
\* inside it, in increasing order; none for empty content
CustomOffsets(c) ==
    IF c = <<>> THEN {<<>>}
    ELSE {Increasing({0} \cup S) : S \in SUBSET (1..(Len(c) - 1))}

\* the text and the offsets of test_no_new_line: fifty bytes, none of them a
\* terminator, and an offset at every fifth
NoNewLineOffsets == <<0, 5, 10, 15, 20, 25, 30, 35, 40, 45>>
NoNewLineText == [i \in 1..(NoNewLineOffsets[Len(NoNewLineOffsets)] + NoNewLineOffsets[2]) |-> 97]

InitCustom ==
    /\ \/ /\ content \in SeqsUpTo(Bytes, MaxLen)
          /\ \E offsets \in CustomOffsets(content) :
                reader = new_custom(content, zero_len(Index_new(offsets)))
       \/ /\ content = NoNewLineText
          /\ reader = new_custom(content, zero_len(Index_new(NoNewLineOffsets)))
    /\ InitIdle

NextCustom ==
    \/ \E n \in Lines : ReadLine(n)
    \/ \E n \in Lines, buf \in Bufs : ReadLineRaw(n, buf)

SpecCustom == InitCustom /\ [][NextCustom]_vars

-----------------------------------------------------------------------------
(* The codec session: the index of `content` is built, encoded behind its  *)
(* header, decoded again; and parse_index is run on sources that may or    *)
(* may not carry an index.                                                 *)

\* sources handed to parse_index: every prefix of the persisted form of the
\* content (the whole of it included), and the raw content itself when it
\* is shorter than a header
ParseSources ==
    {SubSeq(persisted(content), 1, k) : k \in 0..Len(persisted(content))}
        \cup {c \in {content} : Len(c) < HEADER_SIZE}

Build ==
    /\ codec.built = <<>>
    /\ codec' = [codec EXCEPT !.built = <<build(content)>>]
    /\ UNCHANGED <<content, reader, res, sink, mem, shadow, mres, bs, reader2, res2>>

\* the header of the index followed by its encoding, as write_to emits them
Encode ==
    /\ codec.built # <<>>
    /\ codec.encoded = <<>>
    /\ codec' = [codec EXCEPT !.encoded =
                    <<Header_encode(get_header(codec.built[1])) \o Index_encode(codec.built[1])>>]
    /\ UNCHANGED <<content, reader, res, sink, mem, shadow, mres, bs, reader2, res2>>

Decode ==
    /\ codec.encoded # <<>>
    /\ codec.decoded = <<>>
    /\ codec' = [codec EXCEPT !.decoded =
                    <<Index_decode(codec.encoded[1], get_header(codec.built[1]))>>]
    /\ UNCHANGED <<content, reader, res, sink, mem, shadow, mres, bs, reader2, res2>>

ParseIndex(src) ==
    /\ codec.parsed = <<>>
    /\ codec' = [codec EXCEPT !.parsed = <<[src |-> src, result |-> parse_index(src)]>>]
    /\ UNCHANGED <<content, reader, res, sink, mem, shadow, mres, bs, reader2, res2>>

NextIndex ==
    \/ Build
    \/ Encode
    \/ Decode
    \/ \E src \in ParseSources : ParseIndex(src)

SpecIndex == InitReader /\ [][NextIndex]_vars

(* The index session: an Index is made by Index::new or by decoding, and   *)
(* grows by add and extend. `codec.grown` holds it with the name of the    *)
(* operation that produced it.                                             *)

\* offsets handed to the producers
Offsets == 0..MaxLen

Grown(op, index) ==
    /\ Index_len(index) <= MaxEntries
    /\ codec' = [codec EXCEPT !.grown = <<[op |-> op, index |-> index]>>]
    /\ UNCHANGED <<content, reader, res, sink, mem, shadow, mres, bs, reader2, res2>>

IndexNew(line) == Grown("new", Index_new(line))

IndexAdd(pos) ==
    /\ codec.grown # <<>>
    /\ Grown("add", Index_add(codec.grown[1].index, pos))

IndexExtend(iter) ==
    /\ codec.grown # <<>>
    /\ Grown("extend", Index_extend(codec.grown[1].index, iter))

\* the index is encoded behind its header and decoded again
IndexDecode ==
    /\ codec.grown # <<>>
    /\ LET index == codec.grown[1].index
           header == get_header(index)
       IN  Grown("decode", Index_decode(Header_encode(header) \o Index_encode(index),
                                        header).val)

InitGrow ==
    /\ content = <<>>
    /\ reader = new_raw(content)
    /\ InitIdle

NextGrow ==
    \/ \E line \in SeqsUpTo(Offsets, MaxEntries) : IndexNew(line)
    \/ \E pos \in Offsets : IndexAdd(pos)
    \/ \E iter \in SeqsUpTo(Offsets, MaxEntries) : IndexExtend(iter)
    \/ IndexDecode

SpecGrow == InitGrow /\ [][NextGrow]_vars

-----------------------------------------------------------------------------
(* mem_file.rs: MemFile *)

None == <<>>
Some(v) == <<v>>
\* a slice or splice range outside the vector panics: neither None nor Some
Panic == <<<<>>, <<>>>>

\* Index::get2 is not part of the sources at hand; it is the lookup of the
\* offset of entry pos, absent when pos is out of range
get2(index, pos) == IF pos < Len(index.inner) THEN Some(index.inner[pos + 1]) ELSE None

MemFile_new == [data |-> <<>>, index |-> [inner |-> <<>>, len_bytes |-> 0]]

MemFile_len(m) == Index_len(m.index)

raw_len(m) == Len(m.data)

\* insert recording the length of the buffer after the append as the offset
insert_offset_after_append(m, data) ==
    LET pos == Index_len(m.index)
    IN  [mem |-> [data |-> m.data \o data,
                  index |-> Index_add(m.index, Len(m.data \o data))],
         result |-> pos]

\* the MemFile after the call and the position returned
insert(m, data) ==
    LET pos == Index_len(m.index)
    IN  [mem |-> [data |-> m.data \o data, index |-> Index_add(m.index, Len(m.data))],
         result |-> pos]

\* Extend: insert every item of the iterator, in its order
RECURSIVE extend(_, _)
extend(m, iter) ==
    IF iter = <<>> THEN m ELSE extend(insert(m, Head(iter)).mem, Tail(iter))

\* From<iterator>: a new MemFile with every item inserted, in its order
RECURSIVE from_loop(_, _)
from_loop(new, iter) ==
    IF iter = <<>> THEN new ELSE from_loop(insert(new, Head(iter)).mem, Tail(iter))

MemFile_from(iter) == from_loop(MemFile_new, iter)

\* index_range falling back to the end of the buffer for the start as well
index_range_unwrap_start(m, pos) ==
    LET start == get2(m.index, pos)
        next == get2(m.index, pos + 1)
    IN  Some(<<IF start = None THEN raw_len(m) ELSE start[1],
               IF next = None THEN raw_len(m) ELSE next[1]>>)

index_range(m, pos) ==
    LET start == get2(m.index, pos)
        next == get2(m.index, pos + 1)
    IN  IF start = None THEN None
        ELSE Some(<<start[1], IF next = None THEN raw_len(m) ELSE next[1]>>)

\* replace without the shift of the later entries' offsets
replace_no_shift(m, pos, data) ==
    LET range == index_range(m, pos)
    IN  IF range = None THEN [mem |-> m, result |-> None]
        ELSE LET start == range[1][1]
                 end == range[1][2]
             IN  IF start > end \/ end > Len(m.data) THEN [mem |-> m, result |-> Panic]
                 ELSE [mem |-> [m EXCEPT !.data = Slice(m.data, 0, start) \o data \o From(m.data, end)],
                       result |-> Some(<<>>)]

\* replace shifting the offset of the replaced entry along with the later ones
replace_shift_from_pos(m, pos, data) ==
    LET range == index_range(m, pos)
    IN  IF range = None THEN [mem |-> m, result |-> None]
        ELSE LET start == range[1][1]
                 end == range[1][2]
                 diff == Len(data) - (end - start)
             IN  IF start > end \/ end > Len(m.data) THEN [mem |-> m, result |-> Panic]
                 ELSE [mem |-> [data  |-> Slice(m.data, 0, start) \o data \o From(m.data, end),
                                index |-> [m.index EXCEPT !.inner =
                                              [i \in 1..Len(m.index.inner) |->
                                                  IF i - 1 >= pos THEN m.index.inner[i] + diff
                                                  ELSE m.index.inner[i]]]],
                       result |-> Some(<<>>)]

\* the MemFile after the call and the Option returned
replace(m, pos, data) ==
    LET range == index_range(m, pos)
    IN  IF range = None THEN [mem |-> m, result |-> None]
        ELSE LET start == range[1][1]
                 end == range[1][2]
                 diff == Len(data) - (end - start)
             IN  IF start > end \/ end > Len(m.data) THEN [mem |-> m, result |-> Panic]
                 ELSE [mem |-> [data  |-> Slice(m.data, 0, start) \o data \o From(m.data, end),
                                index |-> [m.index EXCEPT !.inner =
                                              [i \in 1..Len(m.index.inner) |->
                                                  IF i - 1 >= pos + 1 THEN m.index.inner[i] + diff
                                                  ELSE m.index.inner[i]]]],
                       result |-> Some(<<>>)]

MemFile_get(m, pos) ==
    LET range == index_range(m, pos)
    IN  IF range = None THEN None
        ELSE LET start == range[1][1]
                 end == range[1][2]
             IN  IF start > end \/ end > Len(m.data) THEN Panic
                 ELSE Some(Slice(m.data, start, end - start))

(* The store session: `mem` is the MemFile, `shadow` the bytes last        *)
(* written to each position, `mres` the outcome of the last operation.     *)

\* byte strings inserted and spliced in: "", "a", "b", "ab"
Entries == {<<>>, <<97>>, <<98>>, <<97, 98>>}

\* positions a caller asks for: every entry, and two past the end
Positions == 0..(MemFile_len(mem) + 1)

Insert(data) ==
    LET o == insert(mem, data)
    IN  /\ MemFile_len(mem) < MaxEntries
        /\ mem' = o.mem
        /\ shadow' = Append(shadow, data)
        /\ mres' = [op |-> "insert", pos |-> o.result, data |-> data, result |-> Some(o.result),
                    before |-> mem]
        /\ UNCHANGED <<content, reader, res, sink, bs, codec, reader2, res2>>

Replace(pos, data) ==
    LET o == replace(mem, pos, data)
    IN  /\ mem' = o.mem
        /\ shadow' = IF o.result = Some(<<>>) THEN [shadow EXCEPT ![pos + 1] = data] ELSE shadow
        /\ mres' = [op |-> "replace", pos |-> pos, data |-> data, result |-> o.result,
                    before |-> mem]
        /\ UNCHANGED <<content, reader, res, sink, bs, codec, reader2, res2>>

\* iterators handed to extend and from: up to two items
Iters == {<<>>} \cup {<<x>> : x \in Entries} \cup {<<x, y>> : x \in Entries, y \in Entries}

Extend(iter) ==
    /\ MemFile_len(mem) + Len(iter) <= MaxEntries
    /\ mem' = extend(mem, iter)
    /\ shadow' = shadow \o iter
    /\ mres' = [op |-> "extend", pos |-> 0, data |-> iter, result |-> None, before |-> mem]
    /\ UNCHANGED <<content, reader, res, sink, bs, codec, reader2, res2>>

\* the session goes on with a MemFile made from an iterator
From_iter(iter) ==
    /\ mem' = MemFile_from(iter)
    /\ shadow' = iter
    /\ mres' = [op |-> "from", pos |-> 0, data |-> iter, result |-> None,
                before |-> MemFile_new]
    /\ UNCHANGED <<content, reader, res, sink, bs, codec, reader2, res2>>

Get(pos) ==
    /\ mres' = [op |-> "get", pos |-> pos, data |-> <<>>, result |-> MemFile_get(mem, pos),
                before |-> mem]
    /\ UNCHANGED <<mem, shadow, content, reader, res, sink, bs, codec, reader2, res2>>

InitMem ==
    /\ content = <<>>
    /\ reader = new_raw(content)
    /\ res = NoRes
    /\ sink = NoSink
    /\ mem = MemFile_new
    /\ shadow = <<>>
    /\ mres = [op |-> "new", pos |-> 0, data |-> <<>>, result |-> None, before |-> MemFile_new]
    /\ bs = IdleBs
    /\ codec = IdleCodec
    /\ reader2 = <<>>
    /\ res2 = NoRes

NextMem ==
    \/ \E data \in Entries : Insert(data)
    \/ \E pos \in Positions, data \in Entries : Replace(pos, data)
    \/ \E pos \in Positions : Get(pos)
    \/ \E iter \in Iters : Extend(iter)
    \/ \E iter \in Iters : From_iter(iter)

SpecMem == InitMem /\ [][NextMem]_vars

-----------------------------------------------------------------------------
(* lib.rs: binary_search_by / binary_search_raw_by *)

\* Ord::cmp of two strings or byte slices: lexicographic, byte by byte
RECURSIVE cmp(_, _)
cmp(a, b) ==
    IF a = <<>> THEN (IF b = <<>> THEN "Equal" ELSE "Less")
    ELSE IF b = <<>> THEN "Greater"
    ELSE IF a[1] < b[1] THEN "Less"
    ELSE IF a[1] > b[1] THEN "Greater"
    ELSE cmp(Tail(a), Tail(b))

\* the comparator binary_search / binary_search_raw hand on: |p| p.cmp(x)
f(p, x) == cmp(p, x)

\* the narrowing with the two branches swapped
narrow_swapped(b, mid, ord) ==
    IF ord = "Less"
    THEN [b EXCEPT !.right = mid, !.size = mid - b.left, !.mid = <<mid>>]
    ELSE IF ord = "Greater"
    THEN [b EXCEPT !.left = mid + 1, !.size = b.right - (mid + 1), !.mid = <<mid>>]
    ELSE [b EXCEPT !.pc = "done", !.result = Ok(mid), !.mid = <<mid>>]

\* the narrowing that keeps the probed line in the range on Less
narrow_keeps_mid(b, mid, ord) ==
    IF ord = "Less"
    THEN [b EXCEPT !.left = mid, !.size = b.right - mid, !.mid = <<mid>>]
    ELSE IF ord = "Greater"
    THEN [b EXCEPT !.right = mid, !.size = mid - b.left, !.mid = <<mid>>]
    ELSE [b EXCEPT !.pc = "done", !.result = Ok(mid), !.mid = <<mid>>]

\* the end of one iteration: narrow the range, or return the line found
narrow(b, mid, ord) ==
    IF ord = "Less"
    THEN [b EXCEPT !.left = mid + 1, !.size = b.right - (mid + 1), !.mid = <<mid>>]
    ELSE IF ord = "Greater"
    THEN [b EXCEPT !.right = mid, !.size = mid - b.left, !.mid = <<mid>>]
    ELSE [b EXCEPT !.pc = "done", !.result = Ok(mid), !.mid = <<mid>>]

\* the state of a search at its start
search_start(r, raw, x) ==
    [pc |-> "loop", raw |-> raw, needle |-> x, size |-> total_lines(r), left |-> 0,
     right |-> total_lines(r), cmp |-> <<>>, mid |-> <<>>, result |-> Ok(<<>>), steps |-> 0]

\* one test of the loop condition and, if it holds, one iteration: the
\* search and the Outcome of the read of line mid
search_step(b, r) ==
    IF b.left < b.right
    THEN LET mid == b.left + b.size \div 2
             o == IF b.raw THEN read_line_raw(r, mid, <<>>) ELSE read_line(r, mid)
             line == IF b.raw THEN o.buf ELSE o.result.val
         IN  [probed |-> TRUE, mid |-> mid, o |-> o,
              bs |-> IF o.result.kind # "Ok"
                     THEN [b EXCEPT !.pc = "done", !.result = Err(o.result.kind), !.mid = <<mid>>,
                                    !.steps = @ + 1]
                     ELSE [narrow(b, mid, f(line, b.needle)) EXCEPT
                                    !.steps = @ + 1, !.cmp = <<f(line, b.needle)>>]]
    ELSE [probed |-> FALSE, mid |-> 0, o |-> Outcome(r, Ok(<<>>), <<>>, FALSE),
          bs |-> [b EXCEPT !.pc = "done", !.result = Err("NotFound")]]

\* the same for binary_search_by / binary_search_raw_by with a comparator of
\* the caller's: ord is what it answers for the line read, whatever the line
search_step_by(b, r, ord) ==
    IF b.left < b.right
    THEN LET mid == b.left + b.size \div 2
             o == IF b.raw THEN read_line_raw(r, mid, <<>>) ELSE read_line(r, mid)
         IN  [probed |-> TRUE, mid |-> mid, o |-> o,
              bs |-> IF o.result.kind # "Ok"
                     THEN [b EXCEPT !.pc = "done", !.result = Err(o.result.kind), !.mid = <<mid>>,
                                    !.steps = @ + 1]
                     ELSE [narrow(b, mid, ord) EXCEPT !.steps = @ + 1, !.cmp = <<ord>>]]
    ELSE [probed |-> FALSE, mid |-> 0, o |-> Outcome(r, Ok(<<>>), <<>>, FALSE),
          bs |-> [b EXCEPT !.pc = "done", !.result = Err("NotFound")]]

(* The search session: lines are read, then a search runs to its end *)

Needles == SeqsUpTo({NL, 97}, MaxNeedle)

SearchStart(raw, x) ==
    /\ bs.pc # "loop"
    /\ bs' = search_start(reader, raw, x)
    /\ UNCHANGED <<content, reader, res, sink, mem, shadow, mres, codec, reader2, res2>>

SearchStep ==
    LET st == search_step(bs, reader)
    IN  /\ bs.pc = "loop"
        /\ bs' = st.bs
        /\ reader' = st.o.reader
        /\ res' = IF st.probed
                  THEN Record(IF bs.raw THEN "read_line_raw" ELSE "read_line", st.mid, <<>>,
                              st.o, reader)
                  ELSE res
        /\ UNCHANGED <<content, sink, mem, shadow, mres, codec, reader2, res2>>

\* a line read outside a search
SearchReadLine(n) ==
    /\ bs.pc = "idle"
    /\ ReadLine(n)

NextSearch ==
    \/ \E n \in Lines : SearchReadLine(n)
    \/ \E raw \in BOOLEAN, x \in Needles : SearchStart(raw, x)
    \/ SearchStep

SpecSearch == InitReader /\ [][NextSearch]_vars

(* The same session with a comparator of the caller's: an FnMut, free to  *)
(* answer anything for any line, the same line probed twice included      *)

Ordering == {"Less", "Equal", "Greater"}

SearchStartBy(raw) ==
    /\ bs.pc # "loop"
    /\ bs' = search_start(reader, raw, <<>>)
    /\ UNCHANGED <<content, reader, res, sink, mem, shadow, mres, codec, reader2, res2>>

SearchStepBy(ord) ==
    LET st == search_step_by(bs, reader, ord)
    IN  /\ bs.pc = "loop"
        /\ bs' = st.bs
        /\ reader' = st.o.reader
        /\ res' = IF st.probed
                  THEN Record(IF bs.raw THEN "read_line_raw" ELSE "read_line", st.mid, <<>>,
                              st.o, reader)
                  ELSE res
        /\ UNCHANGED <<content, sink, mem, shadow, mres, codec, reader2, res2>>

NextSearchBy ==
    \/ \E n \in Lines : SearchReadLine(n)
    \/ \E raw \in BOOLEAN : SearchStartBy(raw)
    \/ \E ord \in Ordering : SearchStepBy(ord)

SpecSearchBy == InitReader /\ [][NextSearchBy]_vars

-----------------------------------------------------------------------------
(* Reference definitions the properties are stated with *)

\* offset of the first '\n' of s at or after offset p, or Len(s) if none
RECURSIVE FirstNL(_, _)
FirstNL(s, p) ==
    IF p >= Len(s) THEN Len(s)
    ELSE IF s[p + 1] = NL THEN p ELSE FirstNL(s, p + 1)

\* the '\n'-delimited chunks of s, terminators stripped; the empty chunk
\* after a trailing terminator is no chunk
RECURSIVE Chunks(_)
Chunks(s) ==
    IF s = <<>> THEN <<>>
    ELSE LET k == FirstNL(s, 0)
         IN  <<Slice(s, 0, k)>> \o Chunks(From(s, k + 1))

\* the offsets at which a chunk of s starts: offset 0 and every offset that
\* follows a '\n', as long as it lies inside s
IsChunkStart(s, p) == p < Len(s) /\ (p = 0 \/ s[p] = NL)

\* byte k (0 = least significant) of v
RECURSIVE ByteOf(_, _)
ByteOf(v, k) == IF k = 0 THEN v % B256 ELSE ByteOf(v \div B256, k - 1)

\* the persisted layout, byte by byte: the entry count in HEADER_SIZE
\* little-endian bytes, each offset in 4 little-endian bytes, the bytes
\* `sep`, then the content region
Layout(inner, sep, region) ==
    LET body == HEADER_SIZE + 4 * Len(inner)
        total == body + Len(sep) + Len(region)
    IN  [i \in 1..total |->
            IF i <= HEADER_SIZE THEN ByteOf(Len(inner), i - 1)
            ELSE IF i <= body
                 THEN ByteOf(inner[((i - 1 - HEADER_SIZE) \div 4) + 1], (i - 1 - HEADER_SIZE) % 4)
            ELSE IF i <= body + Len(sep) THEN sep[i - body]
            ELSE region[i - body - Len(sep)]]

IsText(s) == \A i \in 1..Len(s) : s[i] < 128

-----------------------------------------------------------------------------
(* Properties *)

\* C1: for every n in [0, total_lines()), read_line(n) on a reader whose
\* index was built from the content returns the n-th '\n'-delimited chunk of
\* the content with the terminator stripped, and read_line_raw(n, empty buf)
\* leaves the same bytes in buf.
C1_ReadLineIsChunk ==
    (/\ res.op \in {"read_line", "read_line_raw"}
     /\ res.arg = <<>>
     /\ res.line < Len(Chunks(content))
     /\ IsText(content))
        => /\ res.result.kind = "Ok"
           /\ (IF res.op = "read_line" THEN res.result.val ELSE res.buf)
                  = Chunks(content)[res.line + 1]

\* C2: on one reader, every in-range read_line(n), whatever was read before,
\* returns what read_line(n) returns on a reader that seeks explicitly (one
\* with no last line): eliding the seek never changes the content returned.
C2_SeekElisionKeepsContent ==
    (res.op = "read_line" /\ res.line < total_lines(reader))
        => res.result = read_line([reader EXCEPT !.last_line = <<>>], res.line).result

\* C2 witness: a line other than the first was read without a seek
C2_Witness ==
    /\ res.op = "read_line"
    /\ res.line >= 1
    /\ res.line < total_lines(reader)
    /\ ~res.seeked
    /\ res.result.kind = "Ok"
    /\ Len(res.result.val) > 0

\* C3: the bytes write_to produces for a reader built over raw content open
\* through parse_index to a reader with the same total_lines() and, for
\* every n, the same read_line(n) result as a reader over the raw content.
C3_PersistRoundTrip ==
    /\ (res.op = "open") => res.result.kind = "Ok"
    /\ sink.reopened =>
          /\ total_lines(reader) = total_lines(new_raw(content))
          /\ (res.op = "read_line")
                => res.result = read_line(new_raw(content), res.line).result

\* C3 witness: a line other than the first was read from the reopened reader
C3_Witness ==
    /\ sink.reopened
    /\ res.op = "read_line"
    /\ res.line >= 1
    /\ res.result.kind = "Ok"
    /\ Len(res.result.val) > 1

\* C6: read_line(n) and read_line_raw(n, buf) fail with OutOfBounds for
\* every n >= total_lines(), in every state of the reader.
C6_OutOfBounds ==
    (res.op \in {"read_line", "read_line_raw"} /\ res.line >= total_lines(reader))
        => res.result = Err("OutOfBounds")

\* C6 witness: line total_lines() was asked for right after the last line
\* was read, so that seek_line took the path without a seek
C6_Witness ==
    /\ res.op \in {"read_line", "read_line_raw"}
    /\ total_lines(reader) >= 1
    /\ res.line = total_lines(reader)
    /\ res.last_line = <<res.line - 1>>
    /\ res.pos = Len(reader.src)

\* C6 witness of the empty content: a line asked of a reader with no lines
C6_WitnessEmpty ==
    /\ res.op \in {"read_line", "read_line_raw"}
    /\ total_lines(reader) = 0
    /\ content = <<>>

\* C7 as stated: decoding the encoded index under its header yields an index
\* equal to the built one, index_byte_length included.
C7_DecodeEqualsBuilt ==
    codec.decoded # <<>>
        => /\ codec.decoded[1].kind = "Ok"
           /\ codec.decoded[1].val = codec.built[1]

\* C7 amended: decoding the encoded index under its header yields the same
\* offsets in the same order; its index_byte_length is the length of the
\* header plus the encoded index, where the built index has 0, so that it
\* equals the built index once zero_len is applied.
C7_DecodeKeepsOffsets ==
    codec.decoded # <<>>
        => /\ codec.decoded[1].kind = "Ok"
           /\ codec.decoded[1].val.inner = codec.built[1].inner
           /\ codec.decoded[1].val.len_bytes = Len(codec.encoded[1])
           /\ codec.built[1].len_bytes = 0
           /\ zero_len(codec.decoded[1].val) = codec.built[1]

\* C7 witness: an index of two or more offsets was decoded
C7_Witness ==
    /\ codec.decoded # <<>>
    /\ Len(codec.built[1].inner) >= 2

\* C8 as stated: write_to emits the header, one little-endian offset per
\* line, then the content region with no byte in between, and returns the
\* number of bytes emitted.
C8_NoByteBetween ==
    sink.written
        => /\ sink.bytes = Layout(reader.index.inner, <<>>, content)
           /\ sink.count = Len(sink.bytes)

\* C8 amended: write_to emits the header (the entry count in 8 little-endian
\* bytes), one 4-byte little-endian offset per line in line order, the
\* single byte '\n', then the content region; it returns the number of
\* bytes emitted.
C8_Layout ==
    sink.written
        => /\ sink.bytes = Layout(reader.index.inner, <<NL>>, content)
           /\ sink.count = Len(sink.bytes)

\* C8 witness: a reader of two or more lines, opened over an indexed source,
\* has written
C8_Witness ==
    /\ sink.written
    /\ res.op = "write_to"
    /\ total_lines(reader) >= 2
    /\ reader.index.len_bytes > 0
    /\ reader.last_line # <<>>

\* C9: parse_index fails with MissingIndex when the source is shorter than
\* one header and when the header declares zero entries.
C9_MissingIndex ==
    (/\ codec.parsed # <<>>
     /\ \/ Len(codec.parsed[1].src) < HEADER_SIZE
        \/ from_le_bytes(Slice(codec.parsed[1].src, 0, HEADER_SIZE)) = 0)
        => codec.parsed[1].result.kind = "MissingIndex"

\* C10: Index::build records one offset per '\n'-delimited chunk, the
\* offset of the chunk's first byte, in increasing order; none for the empty
\* chunk after a trailing terminator, none for empty content; and sets
\* index_byte_length to 0; "a\nbb\nccc" gives [0, 2, 5].
C10_BuildOffsets ==
    codec.built # <<>>
        => LET index == codec.built[1]
               n == Len(index.inner)
           IN  /\ index.len_bytes = 0
               /\ n = Len(Chunks(content))
               /\ {index.inner[i] : i \in 1..n}
                     = {p \in 0..Len(content) : IsChunkStart(content, p)}
               /\ \A i \in 1..n :
                     /\ i < n => index.inner[i] < index.inner[i + 1]
                     /\ Slice(content, index.inner[i], Len(Chunks(content)[i]))
                           = Chunks(content)[i]
                     /\ FirstNL(content, index.inner[i])
                           = index.inner[i] + Len(Chunks(content)[i])
               /\ (content # <<>>) => (n >= 1 /\ index.inner[1] = 0)
               /\ (content = <<>>) => (n = 0)
               /\ (content = Example) => (index.inner = <<0, 2, 5>>)

\* C10 witness: the index of a content that ends with a terminator and has
\* an empty chunk inside was built
C10_Witness ==
    /\ codec.built # <<>>
    /\ Len(content) >= 3
    /\ content[Len(content)] = NL
    /\ content[1] = NL
    /\ Len(codec.built[1].inner) >= 2

\* C10 witness of the documented scenario
C10_WitnessExample ==
    /\ codec.built # <<>>
    /\ content = Example

\* C4: after any sequence of insert and replace, get(pos) returns, for every
\* pos < len(), the bytes most recently written to pos, so that a replace at
\* p leaves get(q) unchanged for every q # p.
C4_GetReturnsLastWritten ==
    /\ MemFile_len(mem) = Len(shadow)
    /\ \A pos \in 0..(Len(shadow) - 1) : MemFile_get(mem, pos) = Some(shadow[pos + 1])
    /\ (mres.op = "get" /\ mres.pos < Len(shadow)) => mres.result = Some(shadow[mres.pos + 1])
    /\ (mres.op = "replace" /\ mres.pos < Len(shadow))
          => \A q \in 0..(Len(shadow) - 1) :
                q # mres.pos => MemFile_get(mem, q) = MemFile_get(mres.before, q)

\* C4 witness: an entry before the last was replaced by bytes of another
\* length, and a later entry is not empty
C4_Witness ==
    /\ mres.op = "replace"
    /\ mres.result = Some(<<>>)
    /\ mres.pos + 1 < Len(shadow)
    /\ Len(mres.data) # Len(MemFile_get(mres.before, mres.pos)[1])
    /\ shadow[Len(shadow)] # <<>>

\* the bytes the reader hands the comparator for line i
LineRead(i) == read_line_raw(new_raw(content), i, <<>>).buf

Rank(ord) == IF ord = "Less" THEN 0 ELSE IF ord = "Equal" THEN 1 ELSE 2

\* the lines are sorted under the comparator of needle x
SortedUnder(x) ==
    \A i, j \in 0..(total_lines(reader) - 1) :
        i < j => Rank(f(LineRead(i), x)) <= Rank(f(LineRead(j), x))

\* the lines on which the comparator of needle x answers Equal
EqualLines(x) == {i \in 0..(total_lines(reader) - 1) : f(LineRead(i), x) = "Equal"}

\* C5: when the lines of the reader are sorted under the comparator (and,
\* for binary_search_by, are text), the search returns Ok(i) with
\* compare(line(i)) = Equal whenever some line compares Equal, and
\* Err(NotFound) when none does.
C5_BinarySearch ==
    (/\ bs.pc = "done"
     /\ SortedUnder(bs.needle)
     /\ bs.raw \/ IsText(content))
        => IF EqualLines(bs.needle) # {}
           THEN bs.result.kind = "Ok" /\ bs.result.val \in EqualLines(bs.needle)
           ELSE bs.result = Err("NotFound")

\* C5 witness: a search over two or more sorted lines found a line other
\* than the first, after narrowing at least once
C5_Witness ==
    /\ bs.pc = "done"
    /\ SortedUnder(bs.needle)
    /\ bs.raw \/ IsText(content)
    /\ total_lines(reader) >= 2
    /\ bs.steps >= 2
    /\ bs.result.kind = "Ok"
    /\ bs.result.val >= 1

\* C5 witness of the failing search: no line of two or more sorted lines
\* compares Equal
C5_WitnessNotFound ==
    /\ bs.pc = "done"
    /\ SortedUnder(bs.needle)
    /\ bs.raw \/ IsText(content)
    /\ total_lines(reader) >= 2
    /\ bs.steps >= 2
    /\ bs.result = Err("NotFound")

-----------------------------------------------------------------------------
(* Clones *)

\* the reader as it is when newly made over its source: nothing read yet
Fresh(r) == [r EXCEPT !.last_line = <<>>]

\* C11: a reader made by duplicate()/clone() starts with last_line = None at
\* the start of its own stream; whatever way read_line calls on the reader
\* and on its clone interleave, each call returns what a reader that nobody
\* else touched returns for that line; and a call on one of the two leaves
\* the other's last_line and stream position as they were.
C11_CloneIndependent ==
    /\ [](/\ (res2.op = "clone") =>
                (/\ reader2[1].last_line = <<>>
                 /\ reader2[1].pos = 0
                 /\ reader2[1].index = reader.index)
          /\ (reader2 # <<>> /\ res2.op = "read_line") =>
                (res2.result = read_line(Fresh(reader2[1]), res2.line).result)
          /\ (reader2 # <<>> /\ res.op = "read_line") =>
                (res.result = read_line(Fresh(reader), res.line).result))
    /\ [][/\ (reader' # reader) => (reader2' = reader2)
          /\ (reader2 # <<>> /\ reader2' # reader2 /\ res2'.op = "read_line") =>
                (reader' = reader)]_vars

\* both readers have read a line, each a different one, after the clone
\* was made from a reader that had already read
C11_Witness ==
    /\ reader2 # <<>>
    /\ res.op = "read_line" /\ res.result.kind = "Ok" /\ res.result.val # <<>>
    /\ res2.op = "read_line" /\ res2.result.kind = "Ok" /\ res2.result.val # <<>>
    /\ reader.last_line # reader2[1].last_line
    /\ res2.last_line # <<>>
-----------------------------------------------------------------------------
(* write_to and the reader's state *)

\* C12: write_to leaves the reader usable: whatever lines were read before
\* it, every read_line(n) after a write_to (the line after the last one
\* read before it included) returns what a fresh reader returns for line n.
C12_UsableAfterWriteTo ==
    (sink.written /\ res.op = "read_line" /\ res.line < total_lines(reader)) =>
        (res.result = read_line(Fresh(reader), res.line).result)
\* C13: a seek_line(n) or read_line(n) that fails with OutOfBounds leaves the
\* reader as it was: last_line and the stream position are those from before
\* the call, and no seek was issued on the source.
C13_OutOfBoundsLeavesState ==
    (res.op \in {"seek_line", "read_line"} /\ res.result = Err("OutOfBounds")) =>
        (/\ reader.last_line = res.last_line
         /\ reader.pos = res.pos
         /\ ~res.seeked)
-----------------------------------------------------------------------------
(* MemFile: insert, extend, from, and positions past the end *)

\* the store reached by inserting the items one at a time, the last item last
RECURSIVE InsertEach(_, _)
InsertEach(m, items) ==
    IF items = <<>> THEN m
    ELSE insert(InsertEach(m, SubSeq(items, 1, Len(items) - 1)), items[Len(items)]).mem

\* C14: insert(bytes) returns the number of entries there were before the
\* call, makes len() one larger, records the length the buffer had before
\* the append as the offset of the new entry, and leaves get(q) of every
\* earlier entry q as it was; extend and From<iterator> give the store that
\* inserting the items one by one in order gives.
C14_InsertAppends ==
    /\ (mres.op = "insert") =>
         (/\ mres.result = Some(MemFile_len(mres.before))
          /\ MemFile_len(mem) = MemFile_len(mres.before) + 1
          /\ Index_get(mem.index, MemFile_len(mres.before)) = Ok(raw_len(mres.before))
          /\ MemFile_get(mem, MemFile_len(mres.before)) = Some(mres.data)
          /\ \A q \in 0..(MemFile_len(mres.before) - 1) :
                MemFile_get(mem, q) = MemFile_get(mres.before, q))
    /\ (mres.op \in {"extend", "from"}) => (mem = InsertEach(mres.before, mres.data))

\* a non-empty entry was inserted behind entries that hold bytes
C14_Witness ==
    /\ mres.op = "insert"
    /\ mres.data # <<>>
    /\ MemFile_len(mres.before) >= 2
    /\ raw_len(mres.before) > 0

\* two items were appended by extend to a store that held entries
C14_WitnessExtend ==
    /\ mres.op = "extend"
    /\ Len(mres.data) = 2
    /\ MemFile_len(mres.before) >= 1
\* C15: at every position pos >= len(), get(pos) returns None and
\* replace(pos, bytes) returns None and leaves the buffer and every offset as
\* they were; at every position pos < len(), both return Some.
C15_PastEndIsNone ==
    /\ (mres.op = "get" /\ mres.pos >= MemFile_len(mres.before)) =>
         (mres.result = None)
    /\ (mres.op = "replace" /\ mres.pos >= MemFile_len(mres.before)) =>
         (mres.result = None /\ mem = mres.before)
    /\ (mres.op = "get" /\ mres.pos < MemFile_len(mres.before)) =>
         (Len(mres.result) = 1)
    /\ (mres.op = "replace" /\ mres.pos < MemFile_len(mres.before)) =>
         (mres.result = Some(<<>>))

\* bytes were offered to replace at a position past the end of a store
\* that holds entries
C15_Witness ==
    /\ mres.op = "replace"
    /\ mres.pos >= MemFile_len(mres.before)
    /\ mres.data # <<>>
    /\ raw_len(mres.before) > 0
-----------------------------------------------------------------------------
(* write_to on indexed sources; truncated indexes *)

\* C16: write_to is the identity on an already-indexed source: a reader
\* opened through the indexed-open path over bytes B (header, index,
\* content) writes exactly B, whatever lines were read before, and reports
\* the length of B as the number of bytes written.
C16_WriteToIsIdentity ==
    (sink.written /\ reader.index.len_bytes > 0) =>
        (sink.bytes = reader.src /\ sink.count = Len(reader.src))

\* an indexed source with content was written out by a reader that had
\* read a line of it
C16_Witness ==
    /\ sink.written
    /\ reader.index.len_bytes > 0
    /\ content # <<>>
    /\ res.op = "write_to"
    /\ res.last_line # <<>>
\* C17: Index::decode fails with MalformedIndex whenever fewer bytes follow
\* the header than the entries it declares take, four bytes each; it never
\* returns Ok with fewer entries than declared, and never another kind of
\* error.
C17_TruncatedIsMalformed ==
    (/\ codec.parsed # <<>>
     /\ Len(codec.parsed[1].src) >= HEADER_SIZE
     /\ Len(codec.parsed[1].src) - HEADER_SIZE <
            4 * from_le_bytes(Slice(codec.parsed[1].src, 0, HEADER_SIZE)))
        => codec.parsed[1].result.kind = "MalformedIndex"
-----------------------------------------------------------------------------
(* Conversions, custom indexes, read_all *)

\* C18: converting a File into an in-memory reader keeps every line: the
\* converted reader has the File's total_lines(), and read_line(n) on it
\* returns what read_line(n) returns on the File, for every n, for a File
\* opened raw or pre-indexed, with or without a terminator at the end of
\* the content.
C18_ConversionKeepsLines ==
    (reader2 # <<>> /\ res2.op \in {"try_into_string", "try_into_vec", "read_line"}) =>
        (/\ total_lines(reader2[1]) = total_lines(reader)
         /\ (res2.op = "read_line") =>
                (res2.result = read_line(Fresh(reader), res2.line).result))
\* C19: line boundaries come from the index alone: on a reader made by
\* new_custom over content of length L with a zero_len index, read_line(i)
\* returns exactly end_i - offset(i) - 1 bytes for every line i, the last
\* included, where end_i is offset(i + 1), or L for the last line; also when
\* the content holds no terminator (offsets 0, 5, ..., 45 over 50 bytes give
\* ten lines of length 4).
C19_LengthFromIndex ==
    (res.op = "read_line" /\ res.line < total_lines(reader) /\ res.result.kind = "Ok") =>
        LET inner == reader.index.inner
            i == res.line
            end_i == IF i + 1 < Len(inner) THEN inner[i + 2] ELSE Len(content)
        IN  Len(res.result.val) = end_i - inner[i + 1] - 1
\* C20: read_all(buf) leaves buf equal to the whole content region: every
\* byte of the content and none of a header or index in front of it,
\* whatever was read before and whatever buf held, on readers built raw and
\* on readers opened over indexed sources; and a read_line(n) that follows
\* it still returns line n.
C20_ReadAllIsContent ==
    (res.op = "read_all") =>
        (/\ res.result.kind = "Ok"
         /\ res.buf = content
         /\ \A n \in 0..(total_lines(reader) - 1) :
                read_line(reader, n).result = read_line(Fresh(reader), n).result)
-----------------------------------------------------------------------------
(* The path of seek_line that issues no seek *)

\* C21: in every state reached by any sequence of seek_line,
\* read_current_line, read_line, read_line_raw, read_all and write_to calls,
\* failed ones included: when seek_line(n) returns Ok without a seek (alone
\* or as the first half of a line read), line n exists and the source
\* stands at offset(n) + index_byte_length; every other seek_line(n) that
\* returns Ok has sought to offset(n) + index_byte_length.
C21_NoSeekMeansInPlace ==
    /\ (/\ res.op \in {"seek_line", "read_line", "read_line_raw"}
        /\ res.result.kind = "Ok"
        /\ ~res.seeked) =>
            (/\ res.line < total_lines(reader)
             /\ res.pos = reader.index.inner[res.line + 1] + get_index_byte_len(reader))
    /\ (res.op = "seek_line" /\ res.result.kind = "Ok" /\ res.seeked) =>
            (/\ res.line < total_lines(reader)
             /\ reader.pos = reader.index.inner[res.line + 1] + get_index_byte_len(reader))
-----------------------------------------------------------------------------
(* Binary search under any comparator *)

\* what a search under any comparator does on its way: no probe is out of
\* bounds, right - left shrinks with every iteration that goes on, and the
\* line probed lies in left..(right - 1), below total_lines()
SearchNarrows ==
    /\ [](bs.result.kind # "OutOfBounds" /\ bs.right <= total_lines(reader))
    /\ [][/\ (bs.pc = "loop" /\ bs'.pc = "loop") =>
               (bs'.right - bs'.left < bs.right - bs.left)
          /\ (bs.pc = "loop" /\ bs'.steps = bs.steps + 1) =>
               (/\ bs.left <= bs'.mid[1]
                /\ bs'.mid[1] < bs.right
                /\ bs.right <= total_lines(reader))]_vars

\* the search ended with the line the comparator answered Equal for
FoundEqual ==
    /\ bs.result.kind = "Ok"
    /\ bs.cmp = <<"Equal">>
    /\ bs.mid = <<bs.result.val>>

\* C22 as stated: binary_search_by and binary_search_raw_by terminate under
\* every comparator, sorted lines or not: right - left strictly decreases
\* on every iteration, every probed mid has left <= mid < right <=
\* total_lines(), and the outcome is Ok(i) with compare(line(i)) = Equal or
\* Err(NotFound).
C22_SearchEndsFoundOrNotFound ==
    /\ SearchNarrows
    /\ [](bs.pc = "done" => (FoundEqual \/ bs.result = Err("NotFound")))

\* C22 amended: as above, and binary_search_by has a third outcome: the
\* UTF8Error of read_line when a probed line is not UTF-8.
C22_SearchEnds ==
    /\ SearchNarrows
    /\ [](bs.pc = "done" =>
            \/ FoundEqual
            \/ bs.result = Err("NotFound") /\ bs.left >= bs.right
            \/ /\ bs.result = Err("UTF8Error")
               /\ ~bs.raw
               /\ ~IsText(LineRead(bs.mid[1])))

\* a search over three or more lines went through two iterations with
\* answers that no sorted file gives (Greater, then Less on a line before),
\* and ended NotFound
C22_Witness ==
    /\ bs.pc = "done"
    /\ bs.needle = <<>>
    /\ total_lines(reader) >= 3
    /\ bs.steps >= 2
    /\ bs.cmp = <<"Less">>
    /\ bs.right < total_lines(reader)
    /\ bs.result = Err("NotFound")
-----------------------------------------------------------------------------
(* MemFile: the offsets and the buffer *)

\* the bytes of the spans [offset(i), offset(i + 1) or the end of the
\* buffer) of entries i, i + 1, ..., one after the other
RECURSIVE Spans(_, _)
Spans(m, i) ==
    IF i >= MemFile_len(m) THEN <<>>
    ELSE LET start == m.index.inner[i + 1]
             end == IF i + 1 < MemFile_len(m) THEN m.index.inner[i + 2] ELSE raw_len(m)
         IN  Slice(m.data, start, end - start) \o Spans(m, i + 1)

\* C23: after any sequence of insert and replace from an empty store, the
\* offsets are non-decreasing, the first one is 0, none exceeds the length
\* of the buffer, and the spans of the entries partition the buffer;
\* replace(pos, bytes) moves offset(i) by the signed difference in length
\* for exactly the entries i > pos and leaves offset(i) alone for i <= pos.
C23_OffsetsConsistent ==
    LET inner == mem.index.inner
        n == Len(inner)
    IN  /\ \A i \in 1..(n - 1) : inner[i] <= inner[i + 1]
        /\ (n > 0) => (inner[1] = 0)
        /\ \A i \in 1..n : inner[i] <= raw_len(mem)
        /\ Spans(mem, 0) = mem.data
        /\ (mres.op = "replace" /\ mres.result = Some(<<>>)) =>
              LET old == mres.before.index.inner
                  delta == Len(mres.data) - Len(MemFile_get(mres.before, mres.pos)[1])
              IN  /\ n = Len(old)
                  /\ \A i \in 0..(n - 1) :
                        inner[i + 1] = IF i > mres.pos THEN old[i + 1] + delta ELSE old[i + 1]

\* an entry with entries behind it was replaced by fewer bytes than it held
C23_Witness ==
    /\ mres.op = "replace"
    /\ mres.result = Some(<<>>)
    /\ mres.pos + 1 < MemFile_len(mres.before)
    /\ Len(mres.data) < Len(MemFile_get(mres.before, mres.pos)[1])
    /\ mres.pos >= 1
-----------------------------------------------------------------------------
(* index_byte_length of every producer *)

\* C24: whenever index_byte_length is not zero, whichever of Index::new,
\* Index::decode, add and extend produced the index, it is the number of
\* bytes write_to emits before the content: the length of the header plus
\* the length of encode(index).
C24_LenBytesIsPrefixLength ==
    (codec.grown # <<>> /\ codec.grown[1].index.len_bytes # 0) =>
        LET index == codec.grown[1].index
        IN  index.len_bytes =
                Len(Header_encode(get_header(index))) + Len(Index_encode(index))
-----------------------------------------------------------------------------
(* read_line_raw and the buffer handed in *)

\* C25: what read_line_raw(n, buf) leaves in buf does not depend on what buf
\* held: for every line n in range and every prior buf (empty, shorter or
\* longer than line n), buf holds exactly the bytes of line n after the
\* call, and the count returned is the number of bytes consumed from the
\* source for the line.
C25_BufIsTheLine ==
    (res.op = "read_line_raw" /\ res.line < total_lines(reader)) =>
        (/\ res.result.kind = "Ok"
         /\ res.buf = LineRead(res.line)
         /\ res.result.val = Len(LineRead(res.line))
         /\ res.result.val =
                reader.pos - (reader.index.inner[res.line + 1] + get_index_byte_len(reader)))
====
